---------------------------- MODULE Spec2Model ----------------------------
(***************************************************************************)
(* A model of the codex-pty transcript engine of slopus/happy:             *)
(*   packages/happy-cli/tools-src/codex-pty/src/transcript.rs              *)
(*   packages/happy-cli/tools-src/codex-pty/src/bin/codex_pty.rs           *)
(*                                                                         *)
(* A Rust string is a sequence of characters; a character is a TLA+        *)
(* string: an ASCII character is itself ("a", " ", "\n"), a non-ASCII      *)
(* character is named by a token ("BULLET" is U+2022).  len_utf8 gives     *)
(* each character its UTF-8 width, so byte offsets are computed as the     *)
(* code computes them.                                                     *)
(***************************************************************************)
EXTENDS Integers, Sequences, FiniteSets, TLC

(***************************************************************************)
(* State                                                                   *)
(***************************************************************************)
VARIABLES
  \* TranscriptPrinter
  printed_keys, saw_prompt,
  \* the Snapshot of the last call of on_screen, what the call returned, the
  \* calls made
  last_screen, ret, calls,
  \* history of the session: the Snapshots with a prompt-marker row fed so
  \* far; the Dedup Keys of the blocks returned so far and their number; the
  \* Dedup Keys of the blocks that busy Snapshots showed
  prompts_fed, emitted_keys, n_emitted, busy_hidden,
  \* the last Snapshot against the one before it: the same Snapshot; another
  \* Snapshot whose blocks differ from its blocks only in the lengths of
  \* whitespace runs
  replayed, alike,
  \* ChatDeltaEmitter
  prev, rewrite_events, total_emitted_chars, last_delta_chars,
  \* history of the session: the texts given to on_chat_text and the updates
  \* it returned, in order
  texts, updates,
  \* the transcript thread: the blocks its `for` loop has still to send, and
  \* whether it left its read loop
  pending, thread_done,
  \* the mpsc channel, the lines written to stdout, whether the output task
  \* ended, whether run_jsonl returned
  channel, stdout, output_done, returned,
  \* history of the session: the blocks handed to tx.send, each with the
  \* number of the frame that produced it
  log,
  \* the read loop of the transcript thread: the contents of the vt100 screen
  \* after its latest turn, and the turns it made
  vt_screen, reads,
  \* one call of a function of a Snapshot: the Snapshot and the row count
  \* given; what mirror_assistant_screen and extract_chat_area returned (None
  \* before the call)
  snapshot, target_rows, mirror_ret, area_ret,
  \* extract_transcript_candidates at work: where it stands, its locals
  \* lines, prompt_row, i and out, the role of the block its inner loop is
  \* filling or has just left (K_none after a skipped row), that loop's msg_lines and
  \* pending_blank, and what the last turn of a loop did with its row
  seg_pc, seg_lines, seg_prompt_row, seg_i, seg_out, seg_kind, seg_msg_lines,
  seg_pending_blank, seg_last

gate_vars == <<printed_keys, saw_prompt, last_screen, ret, calls,
               prompts_fed, emitted_keys, n_emitted, busy_hidden, replayed, alike>>
delta_vars == <<prev, rewrite_events, total_emitted_chars, last_delta_chars,
                texts, updates>>
read_vars == <<vt_screen, reads>>
pipe_vars == <<pending, thread_done, channel, stdout, output_done, returned, log, read_vars>>
fn_vars == <<snapshot, target_rows, mirror_ret, area_ret>>
seg_vars == <<seg_pc, seg_lines, seg_prompt_row, seg_i, seg_out, seg_kind, seg_msg_lines,
              seg_pending_blank, seg_last>>
call_vars == <<fn_vars, seg_vars>>
vars == <<gate_vars, delta_vars, pipe_vars, call_vars>>

(***************************************************************************)
(* Characters                                                              *)
(***************************************************************************)
BULLET == "BULLET"      \* U+2022
RSAQUO == "RSAQUO"      \* U+203A
WARN   == "WARN"        \* U+26A0
BOX_TL == "BOX_TL"      \* U+256D
BOX_BL == "BOX_BL"      \* U+2570
BOX_V  == "BOX_V"       \* U+2502
RING_S == "RING_S"      \* U+25E6
RING_L == "RING_L"      \* U+25EF
RING_M == "RING_M"      \* U+25CB
EACUTE == "EACUTE"      \* U+00E9
NL     == "\n"
SP     == " "

ThreeByteChars == {BULLET, RSAQUO, WARN, BOX_TL, BOX_BL, BOX_V, RING_S, RING_L, RING_M}
TwoByteChars == {EACUTE}

len_utf8(ch) == IF ch \in ThreeByteChars THEN 3 ELSE IF ch \in TwoByteChars THEN 2 ELSE 1

is_whitespace(ch) == ch \in {" ", "\t", "\n", "\r"}

is_ascii_digit(ch) == ch \in {"0", "1", "2", "3", "4", "5", "6", "7", "8", "9"}

(***************************************************************************)
(* str methods used by the code                                            *)
(***************************************************************************)
MaxOf(S) == CHOOSE m \in S : \A k \in S : k <= m
MinOf(S) == CHOOSE m \in S : \A k \in S : m <= k

RECURSIVE byte_len(_)
byte_len(s) == IF s = <<>> THEN 0 ELSE len_utf8(Head(s)) + byte_len(Tail(s))

chars_count(s) == Len(s)

starts_with(s, p) == Len(s) >= Len(p) /\ SubSeq(s, 1, Len(p)) = p

ends_with(s, p) == Len(s) >= Len(p) /\ SubSeq(s, Len(s) - Len(p) + 1, Len(s)) = p

MatchStarts(s, p) == {i \in 1..(Len(s) - Len(p) + 1) : SubSeq(s, i, i + Len(p) - 1) = p}

contains(s, p) == MatchStarts(s, p) # {}

\* Option<T>: None is the empty tuple, Some(v) the one-element tuple
None == <<>>
Some(v) == <<v>>
is_some(o) == o # <<>>
unwrap(o) == o[1]
unwrap_or(o, d) == IF o = <<>> THEN d ELSE o[1]

\* str::find: the byte offset of the first match
find(s, p) ==
  IF MatchStarts(s, p) = {} THEN None
  ELSE Some(byte_len(SubSeq(s, 1, MinOf(MatchStarts(s, p)) - 1)))

NonWs(s) == {i \in 1..Len(s) : ~is_whitespace(s[i])}

trim_end(s) == IF NonWs(s) = {} THEN <<>> ELSE SubSeq(s, 1, MaxOf(NonWs(s)))

trim_start(s) == IF NonWs(s) = {} THEN <<>> ELSE SubSeq(s, MinOf(NonWs(s)), Len(s))

trim(s) == trim_start(trim_end(s))

\* str::strip_prefix / strip_suffix: None when the affix is absent
strip_prefix(s, p) == IF starts_with(s, p) THEN Some(SubSeq(s, Len(p) + 1, Len(s))) ELSE None

strip_suffix(s, p) == IF ends_with(s, p) THEN Some(SubSeq(s, 1, Len(s) - Len(p))) ELSE None

\* the character index (0-based count of characters) at byte offset b, for slicing
RECURSIVE chars_before_byte(_, _)
chars_before_byte(s, b) ==
  IF b <= 0 \/ s = <<>> THEN 0
  ELSE 1 + chars_before_byte(Tail(s), b - len_utf8(Head(s)))

\* &s[b..] for a byte offset b on a character boundary
slice_from_byte(s, b) == SubSeq(s, chars_before_byte(s, b) + 1, Len(s))

\* [String]::join
RECURSIVE join(_, _)
join(ls, sep) ==
  IF ls = <<>> THEN <<>>
  ELSE IF Len(ls) = 1 THEN ls[1]
  ELSE ls[1] \o sep \o join(Tail(ls), sep)

\* str::lines: split at "\n", drop one "\r" before it, no final empty line
NlAt(s) == {i \in 1..Len(s) : s[i] = NL}
NthNl(s, k) == CHOOSE i \in NlAt(s) : Cardinality({j \in NlAt(s) : j < i}) = k - 1
LineStart(s, k) == IF k = 1 THEN 1 ELSE NthNl(s, k - 1) + 1
LineEnd(s, k) == IF k <= Cardinality(NlAt(s)) THEN NthNl(s, k) - 1 ELSE Len(s)
StripCr(l) == IF l # <<>> /\ l[Len(l)] = "\r" THEN SubSeq(l, 1, Len(l) - 1) ELSE l
LineCount(s) ==
  IF s = <<>> THEN 0
  ELSE IF s[Len(s)] = NL THEN Cardinality(NlAt(s)) ELSE Cardinality(NlAt(s)) + 1
lines(s) == [k \in 1..LineCount(s) |-> StripCr(SubSeq(s, LineStart(s, k), LineEnd(s, k)))]

(***************************************************************************)
(* String literals of transcript.rs                                        *)
(***************************************************************************)
L_esc_to_interrupt == <<"e","s","c"," ","t","o"," ","i","n","t","e","r","r","u","p","t">>
L_context_left == <<"%"," ","c","o","n","t","e","x","t"," ","l","e","f","t">>
L_for_shortcuts == <<"?"," ","f","o","r"," ","s","h","o","r","t","c","u","t","s">>
L_model == <<"m","o","d","e","l",":">>
L_directory == <<"d","i","r","e","c","t","o","r","y",":">>
L_Tip == <<"T","i","p",":">>
L_Heads_up == <<"H","e","a","d","s"," ","u","p",",">>
L_weekly_limit == <<"w","e","e","k","l","y"," ","l","i","m","i","t">>
L_status == <<"/","s","t","a","t","u","s">>
L_Working == <<"W","o","r","k","i","n","g">>
L_system == <<"s","y","s","t","e","m",":"," ">>
L_user == <<"u","s","e","r",":"," ">>
L_assistant == <<"a","s","s","i","s","t","a","n","t",":"," ">>

(***************************************************************************)
(* transcript.rs: row classifiers                                          *)
(***************************************************************************)
\* faulty variant: a key that trims the text and keeps its whitespace runs
transcript_key_verbatim(s) == trim(s)

\* the loop of transcript_key from character i on, with its locals out and prev_ws
RECURSIVE transcript_key_loop(_, _, _, _)
transcript_key_loop(s, i, out, prev_ws) ==
  IF i > Len(s) THEN out
  ELSE LET ws == is_whitespace(s[i])
       IN transcript_key_loop(s, i + 1,
            IF ws THEN (IF ~prev_ws THEN Append(out, " ") ELSE out) ELSE Append(out, s[i]),
            ws)

transcript_key(s) == trim(transcript_key_loop(s, 1, <<>>, FALSE))

is_context_left(trimmed) ==
  LET o == strip_suffix(trimmed, L_context_left)
  IN is_some(o) /\ LET prefix == trim(unwrap(o))
                   IN prefix # <<>> /\ \A k \in 1..Len(prefix) : is_ascii_digit(prefix[k])

is_ui_noise_line(raw) ==
  LET trimmed == trim(raw)
  IN \/ is_context_left(trimmed)
     \/ starts_with(raw, L_for_shortcuts)
     \/ starts_with(raw, L_model)
     \/ starts_with(raw, L_directory)
     \/ starts_with(raw, <<BOX_TL>>)
     \/ starts_with(raw, <<BOX_BL>>)
     \/ starts_with(raw, <<BOX_V>>)
     \/ starts_with(raw, <<RING_S>>)
     \/ starts_with(raw, <<RING_L>>)
     \/ starts_with(raw, <<RING_M>>)
     \/ contains(trimmed, L_esc_to_interrupt)

strip_hanging_indent(raw) == unwrap_or(strip_prefix(raw, <<" ", " ">>), raw)

is_prompt_marker_line(raw) ==
  \/ starts_with(raw, <<">", " ">>)
  \/ raw = <<">">>
  \/ starts_with(raw, <<RSAQUO, " ">>)
  \/ raw = <<RSAQUO>>

strip_prompt_marker(raw) ==
  IF is_some(strip_prefix(raw, <<">", " ">>)) THEN strip_prefix(raw, <<">", " ">>)
  ELSE IF raw = <<">">> THEN Some(<<>>)
  ELSE IF is_some(strip_prefix(raw, <<RSAQUO, " ">>)) THEN strip_prefix(raw, <<RSAQUO, " ">>)
  ELSE IF raw = <<RSAQUO>> THEN Some(<<>>)
  ELSE None

\* faulty variant: a notice needs the warning glyph, "Heads up," and a keyword together
is_system_notice_line_all_three(trimmed_start) ==
  IF \/ starts_with(trimmed_start, L_Tip)
     \/ starts_with(trimmed_start, <<">", " ">>)
     \/ trimmed_start = <<">">>
     \/ starts_with(trimmed_start, <<RSAQUO, " ">>)
     \/ trimmed_start = <<RSAQUO>>
     \/ starts_with(trimmed_start, <<BULLET, " ">>)
  THEN FALSE
  ELSE LET trimmed == trim(trimmed_start)
           idx == find(trimmed, L_Heads_up)
       IN /\ starts_with(trimmed, <<WARN>>)
          /\ is_some(idx)
          /\ unwrap(idx) <= 4
          /\ \/ contains(trimmed, L_weekly_limit)
             \/ contains(trimmed, L_status)
             \/ contains(trimmed, <<"%">>)

is_system_notice_line(trimmed_start) ==
  IF \/ starts_with(trimmed_start, L_Tip)
     \/ starts_with(trimmed_start, <<">", " ">>)
     \/ trimmed_start = <<">">>
     \/ starts_with(trimmed_start, <<RSAQUO, " ">>)
     \/ trimmed_start = <<RSAQUO>>
     \/ starts_with(trimmed_start, <<BULLET, " ">>)
  THEN FALSE
  ELSE LET trimmed == trim(trimmed_start)
           idx == find(trimmed, L_Heads_up)
       IN IF starts_with(trimmed, <<WARN>>) THEN TRUE
          ELSE /\ is_some(idx)
               /\ unwrap(idx) <= 4
               /\ \/ contains(trimmed, L_weekly_limit)
                  \/ contains(trimmed, L_status)
                  \/ contains(trimmed, <<"%">>)

(***************************************************************************)
(* transcript.rs: extract_chat_area                                        *)
(***************************************************************************)
\* the prompt-row scan shared by the three functions: the last marker row, 0-based
PromptRows(ls) == {i \in 0..(Len(ls) - 1) : is_prompt_marker_line(ls[i + 1])}
\* faulty variant: the scan stops at the first prompt-marker row
scan_prompt_row_first(ls) == IF PromptRows(ls) = {} THEN None ELSE Some(MinOf(PromptRows(ls)))

scan_prompt_row(ls) == IF PromptRows(ls) = {} THEN None ELSE Some(MaxOf(PromptRows(ls)))

RECURSIVE chat_area_rows(_, _, _, _)
chat_area_rows(ls, i, end, out) ==
  IF i >= end THEN out
  ELSE LET ln == trim_end(ls[i + 1])
       IN chat_area_rows(ls, i + 1, end, IF is_ui_noise_line(ln) THEN out ELSE Append(out, ln))

RECURSIVE pop_blank_tail(_)
pop_blank_tail(out) ==
  IF out # <<>> /\ trim(out[Len(out)]) = <<>> THEN pop_blank_tail(SubSeq(out, 1, Len(out) - 1))
  ELSE out

extract_chat_area(screen) ==
  LET ls == lines(screen)
      prompt_row == scan_prompt_row(ls)
      end == unwrap_or(prompt_row, Len(ls))
  IN [lines |-> pop_blank_tail(chat_area_rows(ls, 0, end, <<>>)), prompt_row |-> prompt_row]

ChatArea_text(area) == join(area.lines, <<NL>>)

(***************************************************************************)
(* transcript.rs: mirror_assistant_screen                                  *)
(***************************************************************************)
\* faulty variant: the rows padded to the height and never truncated
mirror_fit_padded_only(screen, rows) ==
  LET ls == lines(screen)
  IN [k \in 1..MaxOf({Len(ls), rows}) |-> IF k <= Len(ls) THEN trim_end(ls[k]) ELSE <<>>]

\* the rows of the screen right-trimmed, then resize (when shorter) and truncate
mirror_fit(screen, rows) ==
  LET ls == lines(screen)
      trimmed_rows == [k \in 1..Len(ls) |-> trim_end(ls[k])]
      resized == IF Len(trimmed_rows) < rows
                 THEN trimmed_rows \o [k \in 1..(rows - Len(trimmed_rows)) |-> <<>>]
                 ELSE trimmed_rows
  IN SubSeq(resized, 1, rows)

\* the prompt-row scan over out, then the loop that clears rows in place
mirror_blank(out) ==
  LET prompt_row == scan_prompt_row(out)
  IN [k \in 1..Len(out) |->
        IF is_ui_noise_line(out[k]) THEN <<>>
        ELSE IF is_some(prompt_row) /\ (k - 1) >= unwrap(prompt_row) THEN <<>>
        ELSE out[k]]

mirror_assistant_screen(screen, rows) == mirror_blank(mirror_fit(screen, rows))

(***************************************************************************)
(* transcript.rs: extract_transcript_candidates                            *)
(*                                                                         *)
(* The function has four copies of one inner loop, one per kind of block   *)
(* (system notice, Tip, user, assistant).  They differ in two places,      *)
(* which the kind selects: whether a "Tip:" row ends the block, and        *)
(* whether a continuation row loses its hanging indent.                    *)
(***************************************************************************)
K_notice == "notice"
K_tip == "tip"
K_user == "user"
K_assistant == "assistant"
\* no block open
K_none == "none"

\* faulty variant: every inner loop breaks on a "Tip:" row
is_block_break_tip_always(kind, raw2) ==
  LET t2s == trim_start(raw2)
  IN \/ starts_with(t2s, L_Tip)
     \/ is_system_notice_line(t2s)
     \/ starts_with(raw2, <<BULLET, " ">>)
     \/ starts_with(raw2, <<">", " ">>)
     \/ raw2 = <<">">>
     \/ starts_with(raw2, <<RSAQUO, " ">>)
     \/ raw2 = <<RSAQUO>>

\* "Start of a new block": the break condition of the inner loop of `kind`
is_block_break(kind, raw2) ==
  LET t2s == trim_start(raw2)
  IN \/ (kind \in {K_notice, K_tip} /\ starts_with(t2s, L_Tip))
     \/ is_system_notice_line(t2s)
     \/ starts_with(raw2, <<BULLET, " ">>)
     \/ starts_with(raw2, <<">", " ">>)
     \/ raw2 = <<">">>
     \/ starts_with(raw2, <<RSAQUO, " ">>)
     \/ raw2 = <<RSAQUO>>

\* faulty variant: the rows of every system block are pushed as they are
continuation_row_system_verbatim(kind, raw2) ==
  IF kind \in {K_tip, K_notice} THEN raw2 ELSE strip_hanging_indent(raw2)

\* the row as pushed on msg_lines by the inner loop of `kind`
continuation_row(kind, raw2) == IF kind = K_tip THEN raw2 ELSE strip_hanging_indent(raw2)

\* faulty variant: the pending blank line is dropped
absorb_push_no_separator(msg_lines, pending_blank, line) == Append(msg_lines, line)

\* the end of a turn of the inner loop: the pending blank line, then the row
absorb_push(msg_lines, pending_blank, line) ==
  (IF pending_blank THEN Append(msg_lines, <<>>) ELSE msg_lines) \o <<line>>

\* the inner `while i < lines.len()` loop; yields its i and msg_lines at exit
RECURSIVE absorb_loop(_, _, _, _, _)
absorb_loop(kind, ls, i, msg_lines, pending_blank) ==
  IF i >= Len(ls) THEN [i |-> i, msg_lines |-> msg_lines]
  ELSE LET raw2 == trim_end(ls[i + 1])
           t2 == trim(raw2)
       IN IF t2 = <<>> THEN absorb_loop(kind, ls, i + 1, msg_lines, TRUE)
          ELSE IF is_block_break(kind, raw2) THEN [i |-> i, msg_lines |-> msg_lines]
          ELSE IF is_ui_noise_line(raw2) THEN [i |-> i, msg_lines |-> msg_lines]
          ELSE absorb_loop(kind, ls, i + 1,
                 absorb_push(msg_lines, pending_blank, continuation_row(kind, raw2)), FALSE)

\* an opened block: first line pushed, i += 1, inner loop, blank tail popped, joined
open_block(kind, ls, i, first) ==
  LET r == absorb_loop(kind, ls, i + 1, <<first>>, FALSE)
  IN [i |-> r.i, block |-> join(pop_blank_tail(r.msg_lines), <<NL>>)]

\* faulty variant: the live prompt row is treated as any other prompt-marker row
scan_row_live_prompt_kept(ls, prompt_row, i) ==
  LET raw == trim_end(ls[i + 1])
      trimmed_start == trim_start(raw)
      trimmed == trim(trimmed_start)
      skip == [kind |-> K_none, first |-> <<>>]
  IN IF trimmed = <<>> THEN skip
     ELSE IF is_ui_noise_line(raw) THEN skip
     ELSE IF is_system_notice_line(trimmed_start) THEN
       [kind |-> K_notice, first |-> L_system \o trimmed]
     ELSE IF starts_with(trimmed, L_Tip) THEN
       [kind |-> K_tip, first |-> L_system \o trimmed]
     ELSE IF is_prompt_marker_line(raw) THEN
       LET content == trim_end(unwrap_or(strip_prompt_marker(raw), raw))
       IN IF trim(content) = <<>> THEN skip
          ELSE [kind |-> K_user, first |-> L_user \o content]
     ELSE IF starts_with(raw, <<BULLET, " ">>) THEN
       IF contains(trimmed, L_Working) \/ contains(trimmed, L_esc_to_interrupt) THEN skip
       ELSE [kind |-> K_assistant,
             first |-> L_assistant \o unwrap_or(strip_prefix(raw, <<BULLET, " ">>), raw)]
     ELSE skip

\* faulty variant: a prompt-marker row with nothing after its marker opens a user block
scan_row_empty_user_kept(ls, prompt_row, i) ==
  LET raw == trim_end(ls[i + 1])
      trimmed_start == trim_start(raw)
      trimmed == trim(trimmed_start)
      skip == [kind |-> K_none, first |-> <<>>]
  IN IF trimmed = <<>> THEN skip
     ELSE IF is_ui_noise_line(raw) THEN skip
     ELSE IF is_system_notice_line(trimmed_start) THEN
       [kind |-> K_notice, first |-> L_system \o trimmed]
     ELSE IF starts_with(trimmed, L_Tip) THEN
       [kind |-> K_tip, first |-> L_system \o trimmed]
     ELSE IF is_prompt_marker_line(raw) /\ prompt_row = Some(i) THEN skip
     ELSE IF is_prompt_marker_line(raw) THEN
       [kind |-> K_user,
        first |-> L_user \o trim_end(unwrap_or(strip_prompt_marker(raw), raw))]
     ELSE IF starts_with(raw, <<BULLET, " ">>) THEN
       IF contains(trimmed, L_Working) \/ contains(trimmed, L_esc_to_interrupt) THEN skip
       ELSE [kind |-> K_assistant,
             first |-> L_assistant \o unwrap_or(strip_prefix(raw, <<BULLET, " ">>), raw)]
     ELSE skip

\* one turn of the outer `while i < lines.len()` loop at row i, up to the
\* inner loop: the role of the block the row opens, with the first line
\* pushed on msg_lines, or K_none when the row is skipped (i += 1; continue)
scan_row(ls, prompt_row, i) ==
  LET raw == trim_end(ls[i + 1])
      trimmed_start == trim_start(raw)
      trimmed == trim(trimmed_start)
      skip == [kind |-> K_none, first |-> <<>>]
  IN IF trimmed = <<>> THEN skip
     ELSE IF is_ui_noise_line(raw) THEN skip
     ELSE IF is_system_notice_line(trimmed_start) THEN
       [kind |-> K_notice, first |-> L_system \o trimmed]
     ELSE IF starts_with(trimmed, L_Tip) THEN
       [kind |-> K_tip, first |-> L_system \o trimmed]
     ELSE IF is_prompt_marker_line(raw) /\ prompt_row = Some(i) THEN skip
     ELSE IF is_prompt_marker_line(raw) THEN
       LET content == trim_end(unwrap_or(strip_prompt_marker(raw), raw))
       IN IF trim(content) = <<>> THEN skip
          ELSE [kind |-> K_user, first |-> L_user \o content]
     ELSE IF starts_with(raw, <<BULLET, " ">>) THEN
       IF contains(trimmed, L_Working) \/ contains(trimmed, L_esc_to_interrupt) THEN skip
       ELSE [kind |-> K_assistant,
             first |-> L_assistant \o unwrap_or(strip_prefix(raw, <<BULLET, " ">>), raw)]
     ELSE skip

\* the outer `while i < lines.len()` loop from row i on, with out so far
RECURSIVE segment_loop(_, _, _, _)
segment_loop(ls, prompt_row, i, out) ==
  IF i >= Len(ls) THEN out
  ELSE LET o == scan_row(ls, prompt_row, i)
       IN IF o.kind = K_none THEN segment_loop(ls, prompt_row, i + 1, out)
          ELSE LET b == open_block(o.kind, ls, i, o.first)
               IN segment_loop(ls, prompt_row, b.i, Append(out, b.block))

extract_transcript_candidates(screen) ==
  LET ls == lines(screen)
  IN segment_loop(ls, scan_prompt_row(ls), 0, <<>>)

(***************************************************************************)
(* Snapshots                                                               *)
(*                                                                         *)
(* A Snapshot is the screen string: its rows, each ended by "\n" (the      *)
(* form the tests of transcript.rs use).                                   *)
(***************************************************************************)
RECURSIVE Render(_)
Render(rows) == IF rows = <<>> THEN <<>> ELSE Head(rows) \o <<NL>> \o Render(Tail(rows))

R_bullet_a == <<BULLET, " ", "a">>
R_bullet_a_wide == <<BULLET, " ", " ", "a">>
R_heads_up == <<"H","e","a","d","s"," ","u","p",",","%">>
R_heads_up_wide == <<"H","e","a","d","s"," "," ","u","p",",","%">>
R_prompt == <<">", " ", "p">>
R_busy == <<"e","s","c"," ","t","o"," ","i","n","t","e","r","r","u","p","t">>
R_tip == <<"T","i","p",":">>
R_bullet_b == <<BULLET, " ", "b">>

\* the rows a Frame Gate session is fed, the longest Snapshot and the calls
GateRows == {R_bullet_a, R_bullet_a_wide, R_heads_up, R_heads_up_wide, R_prompt, R_busy}
GateMaxRows == 2
GateMaxCalls == 2

RowSeqs(pool, n) == UNION {[1..k -> pool] : k \in 0..n}
GateRowSeqs == RowSeqs(GateRows, GateMaxRows)
GateScreens == {Render(rs) : rs \in GateRowSeqs}

\* the screens the terminal of the pipeline shows, and the frames it runs for
PipeScreens ==
  { Render(<<>>),
    Render(<<R_prompt>>),
    Render(<<R_bullet_a, R_prompt>>),
    Render(<<R_bullet_a, R_heads_up, R_prompt>>),
    Render(<<R_bullet_a, R_busy, R_prompt>>),
    Render(<<R_bullet_b, R_heads_up, R_prompt>>) }
PipeMaxFrames == 3

AllScreens == GateScreens \cup PipeScreens

SeqRange(q) == {q[k] : k \in 1..Len(q)}

\* The functions of a Snapshot are pure: each is evaluated once per Snapshot
\* of the model and looked up afterwards (f @@ <<>> is f, tabulated).
ChatAreaOf == [s \in AllScreens |-> extract_chat_area(s)] @@ <<>>
CandidatesOf == [s \in AllScreens |-> extract_transcript_candidates(s)] @@ <<>>
BusyOf == [s \in AllScreens |-> contains(s, L_esc_to_interrupt)] @@ <<>>
AllBlocks == UNION {SeqRange(CandidatesOf[s]) : s \in AllScreens}
KeyOf == [b \in AllBlocks |-> transcript_key(b)] @@ <<>>

(***************************************************************************)
(* transcript.rs: TranscriptPrinter                                        *)
(***************************************************************************)
TranscriptPrinter_new == [printed_keys |-> {}, saw_prompt |-> FALSE]

\* faulty variant: an insert that reports every key as new
insert_always_new(keys, key) == TRUE

\* HashSet::insert: TRUE when the key was not in the set
hashset_insert_is_new(keys, key) == key \notin keys

\* faulty variant: the loop emits the unseen candidates and records no key
RECURSIVE emit_loop_forgetful(_, _, _, _)
emit_loop_forgetful(candidates, k, keys, emitted) ==
  IF k > Len(candidates) THEN [printed_keys |-> keys, emitted |-> emitted]
  ELSE emit_loop_forgetful(candidates, k + 1, keys,
                           IF KeyOf[candidates[k]] \notin keys
                             THEN Append(emitted, candidates[k]) ELSE emitted)

\* faulty variant: the loop ends at the first candidate whose key is known
RECURSIVE emit_loop_stops_at_seen(_, _, _, _)
emit_loop_stops_at_seen(candidates, k, keys, emitted) ==
  IF k > Len(candidates) THEN [printed_keys |-> keys, emitted |-> emitted]
  ELSE IF KeyOf[candidates[k]] \in keys THEN [printed_keys |-> keys, emitted |-> emitted]
  ELSE emit_loop_stops_at_seen(candidates, k + 1, keys \cup {KeyOf[candidates[k]]},
                               Append(emitted, candidates[k]))

\* the `for line in candidates` loop of on_screen from candidate k on
RECURSIVE emit_loop(_, _, _, _)
emit_loop(candidates, k, keys, emitted) ==
  IF k > Len(candidates) THEN [printed_keys |-> keys, emitted |-> emitted]
  ELSE LET line == candidates[k]
           key == KeyOf[line]
       IN emit_loop(candidates, k + 1, keys \cup {key},
                    IF hashset_insert_is_new(keys, key) THEN Append(emitted, line) ELSE emitted)

\* faulty variant: on_screen without the `if !self.saw_prompt` return
on_screen_ungated(self, screen) ==
  LET saw == IF is_some(ChatAreaOf[screen].prompt_row) THEN TRUE ELSE self.saw_prompt
  IN IF BusyOf[screen]
       THEN [self |-> [self EXCEPT !.saw_prompt = saw], emitted |-> <<>>]
     ELSE LET r == emit_loop(CandidatesOf[screen], 1, self.printed_keys, <<>>)
          IN [self |-> [printed_keys |-> r.printed_keys, saw_prompt |-> saw],
              emitted |-> r.emitted]

\* faulty variant: on_screen without the busy-indicator return
on_screen_busy_blind(self, screen) ==
  LET saw == IF is_some(ChatAreaOf[screen].prompt_row) THEN TRUE ELSE self.saw_prompt
  IN IF ~saw THEN [self |-> [self EXCEPT !.saw_prompt = saw], emitted |-> <<>>]
     ELSE LET r == emit_loop(CandidatesOf[screen], 1, self.printed_keys, <<>>)
          IN [self |-> [printed_keys |-> r.printed_keys, saw_prompt |-> saw],
              emitted |-> r.emitted]

\* on_screen(&mut self, screen): the printer after the call and the returned Vec
\* faulty variant: saw_prompt follows the Snapshot of the call
on_screen_flag_follows_frame(self, screen) ==
  LET saw == is_some(ChatAreaOf[screen].prompt_row)
  IN IF ~saw THEN [self |-> [self EXCEPT !.saw_prompt = saw], emitted |-> <<>>]
     ELSE IF BusyOf[screen]
       THEN [self |-> [self EXCEPT !.saw_prompt = saw], emitted |-> <<>>]
     ELSE LET r == emit_loop(CandidatesOf[screen], 1, self.printed_keys, <<>>)
          IN [self |-> [printed_keys |-> r.printed_keys, saw_prompt |-> saw],
              emitted |-> r.emitted]

on_screen(self, screen) ==
  LET saw == IF is_some(ChatAreaOf[screen].prompt_row) THEN TRUE ELSE self.saw_prompt
  IN IF ~saw THEN [self |-> [self EXCEPT !.saw_prompt = saw], emitted |-> <<>>]
     ELSE IF BusyOf[screen]
       THEN [self |-> [self EXCEPT !.saw_prompt = saw], emitted |-> <<>>]
     ELSE LET r == emit_loop(CandidatesOf[screen], 1, self.printed_keys, <<>>)
          IN [self |-> [printed_keys |-> r.printed_keys, saw_prompt |-> saw],
              emitted |-> r.emitted]

(***************************************************************************)
(* transcript.rs: ChatDeltaEmitter                                         *)
(***************************************************************************)
Initial == "Initial"
AppendKind == "Append"
Rewrite == "Rewrite"
NoChange == "NoChange"

ChatDeltaEmitter_new ==
  [prev |-> <<>>, rewrite_events |-> 0, total_emitted_chars |-> 0, last_delta_chars |-> 0]

\* faulty variant: the common prefix counted in characters, not in bytes
common_prefix_char_index(a, b) ==
  Cardinality({k \in 1..MinOf({Len(a), Len(b)}) : SubSeq(a, 1, k) = SubSeq(b, 1, k)})

\* the `for (idx_b, ch_b) in b.char_indices()` loop: k counts the characters
\* taken from both iterators, last is the byte offset after the last match
RECURSIVE common_prefix_loop(_, _, _, _)
common_prefix_loop(a, b, k, last) ==
  IF k > Len(b) THEN last
  ELSE IF k > Len(a) THEN last
  ELSE IF a[k] # b[k] THEN last
  ELSE common_prefix_loop(a, b, k + 1, last + len_utf8(b[k]))

common_prefix_byte_index(a, b) == common_prefix_loop(a, b, 1, 0)

\* faulty variant: a Rewrite that leaves the rewrite counter alone, and a
\* NoChange that leaves the last-delta length alone
on_chat_text_lazy_counters(self, chat_text) ==
  IF chat_text = self.prev THEN
    [self |-> self, update |-> [kind |-> NoChange, delta |-> <<>>]]
  ELSE IF self.prev = <<>> THEN
    [self |-> [prev |-> chat_text,
               rewrite_events |-> self.rewrite_events,
               total_emitted_chars |-> self.total_emitted_chars + chars_count(chat_text),
               last_delta_chars |-> chars_count(chat_text)],
     update |-> [kind |-> Initial, delta |-> chat_text]]
  ELSE IF common_prefix_byte_index(self.prev, chat_text) = byte_len(self.prev) THEN
    [self |-> [prev |-> chat_text,
               rewrite_events |-> self.rewrite_events,
               total_emitted_chars |-> self.total_emitted_chars
                 + chars_count(slice_from_byte(chat_text, byte_len(self.prev))),
               last_delta_chars |-> chars_count(slice_from_byte(chat_text, byte_len(self.prev)))],
     update |-> [kind |-> AppendKind,
                 delta |-> slice_from_byte(chat_text, byte_len(self.prev))]]
  ELSE [self |-> [self EXCEPT !.prev = chat_text, !.last_delta_chars = 0],
        update |-> [kind |-> Rewrite, delta |-> <<>>]]

\* faulty variant: a Rewrite that keeps the stored text
on_chat_text_rewrite_keeps_prev(self, chat_text) ==
  IF chat_text = self.prev THEN
    [self |-> [self EXCEPT !.last_delta_chars = 0],
     update |-> [kind |-> NoChange, delta |-> <<>>]]
  ELSE IF self.prev = <<>> THEN
    [self |-> [prev |-> chat_text,
               rewrite_events |-> self.rewrite_events,
               total_emitted_chars |-> self.total_emitted_chars + chars_count(chat_text),
               last_delta_chars |-> chars_count(chat_text)],
     update |-> [kind |-> Initial, delta |-> chat_text]]
  ELSE IF common_prefix_byte_index(self.prev, chat_text) = byte_len(self.prev) THEN
    [self |-> [prev |-> chat_text,
               rewrite_events |-> self.rewrite_events,
               total_emitted_chars |-> self.total_emitted_chars
                 + chars_count(slice_from_byte(chat_text, byte_len(self.prev))),
               last_delta_chars |-> chars_count(slice_from_byte(chat_text, byte_len(self.prev)))],
     update |-> [kind |-> AppendKind,
                 delta |-> slice_from_byte(chat_text, byte_len(self.prev))]]
  ELSE [self |-> [self EXCEPT !.rewrite_events = self.rewrite_events + 1,
                              !.last_delta_chars = 0],
        update |-> [kind |-> Rewrite, delta |-> <<>>]]

\* faulty variant: an Append carries the whole text instead of the new suffix
on_chat_text_append_whole_text(self, chat_text) ==
  IF chat_text = self.prev THEN
    [self |-> [self EXCEPT !.last_delta_chars = 0],
     update |-> [kind |-> NoChange, delta |-> <<>>]]
  ELSE IF self.prev = <<>> THEN
    LET delta_chars == chars_count(chat_text)
    IN [self |-> [prev |-> chat_text,
                  rewrite_events |-> self.rewrite_events,
                  total_emitted_chars |-> self.total_emitted_chars + delta_chars,
                  last_delta_chars |-> delta_chars],
        update |-> [kind |-> Initial, delta |-> chat_text]]
  ELSE LET lcp == common_prefix_byte_index(self.prev, chat_text)
       IN IF lcp = byte_len(self.prev) THEN
            LET delta_chars == chars_count(slice_from_byte(chat_text, lcp))
            IN [self |-> [prev |-> chat_text,
                          rewrite_events |-> self.rewrite_events,
                          total_emitted_chars |-> self.total_emitted_chars + delta_chars,
                          last_delta_chars |-> delta_chars],
                update |-> [kind |-> AppendKind, delta |-> chat_text]]
          ELSE [self |-> [prev |-> chat_text,
                          rewrite_events |-> self.rewrite_events + 1,
                          total_emitted_chars |-> self.total_emitted_chars,
                          last_delta_chars |-> 0],
                update |-> [kind |-> Rewrite, delta |-> <<>>]]

\* on_chat_text(&mut self, chat_text): the emitter after the call and the update
on_chat_text(self, chat_text) ==
  IF chat_text = self.prev THEN
    [self |-> [self EXCEPT !.last_delta_chars = 0],
     update |-> [kind |-> NoChange, delta |-> <<>>]]
  ELSE IF self.prev = <<>> THEN
    LET delta_chars == chars_count(chat_text)
    IN [self |-> [prev |-> chat_text,
                  rewrite_events |-> self.rewrite_events,
                  total_emitted_chars |-> self.total_emitted_chars + delta_chars,
                  last_delta_chars |-> delta_chars],
        update |-> [kind |-> Initial, delta |-> chat_text]]
  ELSE LET lcp == common_prefix_byte_index(self.prev, chat_text)
       IN IF lcp = byte_len(self.prev) THEN
            LET delta == slice_from_byte(chat_text, lcp)
                delta_chars == chars_count(delta)
            IN [self |-> [prev |-> chat_text,
                          rewrite_events |-> self.rewrite_events,
                          total_emitted_chars |-> self.total_emitted_chars + delta_chars,
                          last_delta_chars |-> delta_chars],
                update |-> [kind |-> AppendKind, delta |-> delta]]
          ELSE [self |-> [prev |-> chat_text,
                          rewrite_events |-> self.rewrite_events + 1,
                          total_emitted_chars |-> self.total_emitted_chars,
                          last_delta_chars |-> 0],
                update |-> [kind |-> Rewrite, delta |-> <<>>]]


(***************************************************************************)
(* codex_pty.rs: the transcript thread, the channel and the output task    *)
(***************************************************************************)
\* `if !block.ends_with('\n') { block.push('\n') }`
with_newline(block) == IF ends_with(block, <<NL>>) THEN block ELSE Append(block, NL)

\* faulty variant: a channel that hands over the newest message first
mpsc_send_front(queue, msg) == <<msg>> \o queue

\* tx.send on the unbounded channel: the message joins the end of the queue
mpsc_send(queue, msg) == Append(queue, msg)

\* json!({"type": "transcript", "text": chunk}), one line of stdout
transcript_msg(chunk) == [type |-> "transcript", text |-> chunk]

(***************************************************************************)
(* The vocabulary of the specification                                     *)
(***************************************************************************)
\* the elements of t at the indices in kept, in order
Pick(t, kept) ==
  [n \in 1..Cardinality(kept) |->
     t[CHOOSE i \in kept : Cardinality({j \in kept : j < i}) = n - 1]]

\* the Dedup Key as the specification words it: the words of the text (its
\* maximal runs of non-whitespace), joined by single spaces
WordStarts(t) == {i \in 1..Len(t) : ~is_whitespace(t[i]) /\ (i = 1 \/ is_whitespace(t[i - 1]))}
WordEnd(t, i) == MinOf({j \in i..Len(t) : j = Len(t) \/ is_whitespace(t[j + 1])})
NthWordStart(t, n) == CHOOSE i \in WordStarts(t) : Cardinality({j \in WordStarts(t) : j < i}) = n - 1
Words(t) == [n \in 1..Cardinality(WordStarts(t)) |->
               SubSeq(t, NthWordStart(t, n), WordEnd(t, NthWordStart(t, n)))]
DedupKey(t) == join(Words(t), <<" ">>)

\* a text with every whitespace run cut to its first character: two texts
\* that differ only in the lengths of whitespace runs have the same one
SqueezeRuns(t) ==
  Pick(t, {i \in 1..Len(t) : ~(is_whitespace(t[i]) /\ i > 1 /\ is_whitespace(t[i - 1]))})

IsPrefix(a, b) == Len(a) <= Len(b) /\ SubSeq(b, 1, Len(a)) = a

\* a is b with some elements left out
IsSubseq(a, b) ==
  \E f \in [1..Len(a) -> 1..Len(b)] :
    /\ \A i \in 1..Len(a) : b[f[i]] = a[i]
    /\ \A i \in 1..Len(a), j \in 1..Len(a) : i < j => f[i] < f[j]

RECURSIVE Concat(_)
Concat(seqs) == IF seqs = <<>> THEN <<>> ELSE Head(seqs) \o Concat(Tail(seqs))

DedupKeyOf == [b \in AllBlocks |-> DedupKey(b)] @@ <<>>
HasPromptRow ==
  [s \in AllScreens |-> \E k \in 1..Len(lines(s)) : is_prompt_marker_line(lines(s)[k])] @@ <<>>
SqueezedChatOf == [s \in AllScreens |-> SqueezeRuns(ChatArea_text(ChatAreaOf[s]))] @@ <<>>
SqueezedScreenOf == [s \in AllScreens |-> SqueezeRuns(s)] @@ <<>>
SqueezedBlocksOf ==
  [s \in AllScreens |-> [k \in 1..Len(CandidatesOf[s]) |-> SqueezeRuns(CandidatesOf[s][k])]] @@ <<>>
KeysOf == [s \in AllScreens |-> [k \in 1..Len(CandidatesOf[s]) |-> KeyOf[CandidatesOf[s][k]]]] @@ <<>>
DedupKeysOf == [s \in AllScreens |-> {DedupKeyOf[b] : b \in SeqRange(CandidatesOf[s])}] @@ <<>>

\* two Snapshots whose text, and so whose chat text, differs only in the
\* lengths of whitespace runs; two Snapshots whose candidate blocks, one by
\* one, do
ChatAlike(s1, s2) ==
  SqueezedScreenOf[s1] = SqueezedScreenOf[s2] /\ SqueezedChatOf[s1] = SqueezedChatOf[s2]
BlocksAlike(s1, s2) == SqueezedBlocksOf[s1] = SqueezedBlocksOf[s2]

(***************************************************************************)
(* Initial state: a new TranscriptPrinter, a new ChatDeltaEmitter, the     *)
(* pipeline of run_jsonl just started                                      *)
(***************************************************************************)
GateInit ==
  /\ printed_keys = TranscriptPrinter_new.printed_keys
  /\ saw_prompt = TranscriptPrinter_new.saw_prompt
  /\ last_screen = <<>>
  /\ ret = <<>>
  /\ calls = 0
  /\ prompts_fed = 0
  /\ emitted_keys = {}
  /\ n_emitted = 0
  /\ busy_hidden = {}
  /\ replayed = FALSE
  /\ alike = FALSE

DeltaInit ==
  /\ prev = ChatDeltaEmitter_new.prev
  /\ rewrite_events = ChatDeltaEmitter_new.rewrite_events
  /\ total_emitted_chars = ChatDeltaEmitter_new.total_emitted_chars
  /\ last_delta_chars = ChatDeltaEmitter_new.last_delta_chars
  /\ texts = <<>>
  /\ updates = <<>>

PipeInit ==
  /\ pending = <<>>
  /\ thread_done = FALSE
  /\ channel = <<>>
  /\ stdout = <<>>
  /\ output_done = FALSE
  /\ returned = FALSE
  /\ log = <<>>
  /\ vt_screen = <<>>
  /\ reads = 0

\* no function of a Snapshot has been called
FnIdle ==
  /\ snapshot = <<>>
  /\ target_rows = 0
  /\ mirror_ret = None
  /\ area_ret = None

SegIdle ==
  /\ seg_pc = "idle"
  /\ seg_lines = <<>>
  /\ seg_prompt_row = None
  /\ seg_i = 0
  /\ seg_out = <<>>
  /\ seg_kind = K_none
  /\ seg_msg_lines = <<>>
  /\ seg_pending_blank = FALSE
  /\ seg_last = "none"

Init == GateInit /\ DeltaInit /\ PipeInit /\ FnIdle /\ SegIdle

(***************************************************************************)
(* A Frame Gate session: on_screen called on Snapshot after Snapshot       *)
(***************************************************************************)
\* one call transcript.on_screen(&s), with the history it leaves
Feed(s) ==
  \E r \in {on_screen([printed_keys |-> printed_keys, saw_prompt |-> saw_prompt], s)} :
    /\ printed_keys' = r.self.printed_keys
    /\ saw_prompt' = r.self.saw_prompt
    /\ last_screen' = s
    /\ ret' = r.emitted
    /\ calls' = calls + 1
    /\ prompts_fed' = prompts_fed + (IF HasPromptRow[s] THEN 1 ELSE 0)
    /\ emitted_keys' = emitted_keys \cup {DedupKeyOf[b] : b \in SeqRange(r.emitted)}
    /\ n_emitted' = n_emitted + Len(r.emitted)
    /\ busy_hidden' = busy_hidden \cup (IF BusyOf[s] THEN DedupKeysOf[s] ELSE {})
    /\ replayed' = (calls >= 1 /\ s = last_screen)
    /\ alike' = (calls >= 1 /\ s # last_screen /\ BlocksAlike(last_screen, s))

OnScreen(s) ==
  /\ calls < GateMaxCalls
  /\ Feed(s)
  /\ UNCHANGED <<delta_vars, pipe_vars, call_vars>>

GateNext == \E s \in GateScreens : OnScreen(s)

SpecGate == Init /\ [][GateNext]_vars

(***************************************************************************)
(* A Delta Emitter session: on_chat_text called on text after text         *)
(***************************************************************************)
DeltaChars == {"a", EACUTE}
DeltaMaxLen == 3
DeltaMaxCalls == 3
DeltaTexts == UNION {[1..k -> DeltaChars] : k \in 0..DeltaMaxLen}

OnChatText(t) ==
  /\ Len(texts) < DeltaMaxCalls
  /\ \E r \in {on_chat_text([prev |-> prev, rewrite_events |-> rewrite_events,
                             total_emitted_chars |-> total_emitted_chars,
                             last_delta_chars |-> last_delta_chars], t)} :
       /\ prev' = r.self.prev
       /\ rewrite_events' = r.self.rewrite_events
       /\ total_emitted_chars' = r.self.total_emitted_chars
       /\ last_delta_chars' = r.self.last_delta_chars
       /\ texts' = Append(texts, t)
       /\ updates' = Append(updates, r.update)
  /\ UNCHANGED <<gate_vars, pipe_vars, call_vars>>

DeltaNext == \E t \in DeltaTexts : OnChatText(t)

SpecDelta == Init /\ [][DeltaNext]_vars

(***************************************************************************)
(* run_jsonl: the transcript thread feeds the channel, the output task     *)
(* drains it to stdout, select! ends the run                               *)
(***************************************************************************)
\* one turn of the read loop that calls on_screen whatever the screen holds
ReadFrameUnconditional(s) ==
  /\ ~returned /\ ~thread_done /\ pending = <<>>
  /\ reads < PipeMaxFrames
  /\ reads' = reads + 1
  /\ vt_screen' = s
  /\ Feed(s)
  /\ pending' = ret'
  /\ log' = log \o [k \in 1..Len(ret') |-> [text |-> with_newline(ret'[k]), frame |-> calls']]
  /\ UNCHANGED <<delta_vars, thread_done, channel, stdout, output_done, returned, call_vars>>

\* one turn of the read loop: pty_reader.read yields bytes, vt.process takes
\* them and the screen holds s; if s differs from last_screen it becomes
\* last_screen, on_screen is called and the blocks it returns wait for the
\* `for` loop; otherwise the turn ends there
ReadFrame(s) ==
  /\ ~returned /\ ~thread_done /\ pending = <<>>
  /\ reads < PipeMaxFrames
  /\ reads' = reads + 1
  /\ vt_screen' = s
  /\ IF s # last_screen
       THEN /\ Feed(s)
            /\ pending' = ret'
            /\ log' = log \o [k \in 1..Len(ret') |->
                                [text |-> with_newline(ret'[k]), frame |-> calls']]
       ELSE UNCHANGED <<gate_vars, pending, log>>
  /\ UNCHANGED <<delta_vars, thread_done, channel, stdout, output_done, returned, call_vars>>

\* one turn of the `for` loop: tx.send(block), its error ignored
SendBlock ==
  /\ ~returned /\ pending # <<>>
  /\ pending' = Tail(pending)
  /\ channel' = IF output_done THEN channel
                ELSE mpsc_send(channel, with_newline(Head(pending)))
  /\ UNCHANGED <<gate_vars, delta_vars, thread_done, stdout, output_done, returned, log, call_vars, read_vars>>

\* pty_reader.read returns Ok(0) or Err: the thread ends and tx is dropped
ReadEof ==
  /\ ~returned /\ ~thread_done /\ pending = <<>>
  /\ thread_done' = TRUE
  /\ UNCHANGED <<gate_vars, delta_vars, pending, channel, stdout, output_done, returned, log, call_vars, read_vars>>

\* the output task: rx.recv() yields a chunk and its line is written
WriteBlock ==
  /\ ~returned /\ ~output_done /\ channel # <<>>
  /\ stdout' = Append(stdout, transcript_msg(Head(channel)))
  /\ channel' = Tail(channel)
  /\ UNCHANGED <<gate_vars, delta_vars, pending, thread_done, output_done, returned, log, call_vars, read_vars>>

\* the output task: a write to stdout fails, before or after the line went
\* out; the task ends and rx is dropped with what it holds
WriteError(wrote) ==
  /\ ~returned /\ ~output_done /\ channel # <<>>
  /\ stdout' = IF wrote THEN Append(stdout, transcript_msg(Head(channel))) ELSE stdout
  /\ channel' = <<>>
  /\ output_done' = TRUE
  /\ UNCHANGED <<gate_vars, delta_vars, pending, thread_done, returned, log, call_vars, read_vars>>

\* the output task: rx.recv() yields None, the sender is gone and the queue empty
RecvClosed ==
  /\ ~returned /\ ~output_done /\ channel = <<>> /\ thread_done
  /\ output_done' = TRUE
  /\ UNCHANGED <<gate_vars, delta_vars, pending, thread_done, channel, stdout, returned, log, call_vars, read_vars>>

\* select!: the child exits, the input task ends or the output task has
\* ended; run_jsonl returns and the process ends
SelectReturns ==
  /\ ~returned
  /\ returned' = TRUE
  /\ UNCHANGED <<gate_vars, delta_vars, pending, thread_done, channel, stdout, output_done, log, call_vars, read_vars>>

PipeNext ==
  \/ \E s \in PipeScreens : ReadFrame(s)
  \/ SendBlock
  \/ ReadEof
  \/ WriteBlock
  \/ \E wrote \in BOOLEAN : WriteError(wrote)
  \/ RecvClosed
  \/ SelectReturns

SpecPipe == Init /\ [][PipeNext]_vars

(***************************************************************************)
(* The Screen Classifier and the Mirror Projector called on one Snapshot   *)
(***************************************************************************)
R_blank == <<>>
R_text_padded == <<" ", "a", " ">>

\* the rows of the Snapshots given, the longest Snapshot and the largest
\* row count asked of the mirror
ClassifyRows == {R_blank, R_text_padded, R_prompt, R_busy}
ClassifyMaxRows == 3
MirrorMaxHeight == 4
ClassifyScreens == {Render(rs) : rs \in RowSeqs(ClassifyRows, ClassifyMaxRows)}

\* the arguments of the calls, before either call
ClassifyInit ==
  /\ GateInit /\ DeltaInit /\ PipeInit /\ SegIdle
  /\ snapshot \in ClassifyScreens
  /\ target_rows \in 0..MirrorMaxHeight
  /\ mirror_ret = None
  /\ area_ret = None

MirrorAssistantScreen ==
  /\ mirror_ret = None
  /\ mirror_ret' = Some(mirror_assistant_screen(snapshot, target_rows))
  /\ UNCHANGED <<gate_vars, delta_vars, pipe_vars, seg_vars, snapshot, target_rows, area_ret>>

ExtractChatArea ==
  /\ area_ret = None
  /\ area_ret' = Some(extract_chat_area(snapshot))
  /\ UNCHANGED <<gate_vars, delta_vars, pipe_vars, seg_vars, snapshot, target_rows, mirror_ret>>

ClassifyNext == MirrorAssistantScreen \/ ExtractChatArea

SpecClassify == ClassifyInit /\ [][ClassifyNext]_vars

(***************************************************************************)
(* The Block Segmenter at work on one Snapshot: extract_transcript_        *)
(* candidates turn by turn of its loops                                    *)
(***************************************************************************)
R_continuation == <<" ", " ", " ", "c">>
R_prompt_alt == <<RSAQUO, " ", "q">>
R_prompt_bare == <<">">>
R_warn == <<WARN, " ", "w">>

\* the rows of the Snapshots given and the longest Snapshot
SegRows == {R_blank, R_bullet_a, R_continuation, R_prompt, R_prompt_alt, R_prompt_bare,
            R_tip, R_warn, R_busy}
SegMaxRows == 4

\* rows for the notice test: what stands before "Heads up," (nothing, the
\* warning glyph, four bytes, five bytes, the glyph indented), "Heads up,"
\* or another word, and what follows it
NoticeLeads == {<<>>, <<WARN, " ">>, <<"a", "b", "c", " ">>, <<"a", "b", "c", "d", " ">>,
                <<" ", " ", WARN, " ">>}
NoticeWords == {L_Heads_up, <<"x">>}
NoticeTails == {<<>>, <<"%">>, <<" ">> \o L_status, <<" ">> \o L_weekly_limit}
NoticeRows == {l \o w \o t : l \in NoticeLeads, w \in NoticeWords, t \in NoticeTails}
\* each of them alone and with a continuation row below it
NoticeScreens == {Render(<<r>>) : r \in NoticeRows}
                   \cup {Render(<<r, R_continuation>>) : r \in NoticeRows}

SegScreens == {Render(rs) : rs \in RowSeqs(SegRows, SegMaxRows)} \cup NoticeScreens

\* the argument of the call, at the entry of the function
SegInit ==
  /\ GateInit /\ DeltaInit /\ PipeInit
  /\ snapshot \in SegScreens
  /\ target_rows = 0
  /\ mirror_ret = None
  /\ area_ret = None
  /\ seg_pc = "entry"
  /\ seg_lines = <<>>
  /\ seg_prompt_row = None
  /\ seg_i = 0
  /\ seg_out = <<>>
  /\ seg_kind = K_none
  /\ seg_msg_lines = <<>>
  /\ seg_pending_blank = FALSE
  /\ seg_last = "none"

\* the row lines[i] right-trimmed (raw, raw2)
SegRaw == trim_end(seg_lines[seg_i + 1])

\* out, lines, the prompt-row scan and i = 0
SegEnter ==
  /\ seg_pc = "entry"
  /\ seg_pc' = "scan"
  /\ seg_lines' = lines(snapshot)
  /\ seg_prompt_row' = scan_prompt_row(lines(snapshot))
  /\ seg_i' = 0
  /\ seg_out' = <<>>
  /\ UNCHANGED <<gate_vars, delta_vars, pipe_vars, fn_vars, seg_kind, seg_msg_lines,
                 seg_pending_blank, seg_last>>

\* faulty variant: a skipped row is not consumed (no i += 1 before continue)
SegScanRowStuck ==
  /\ seg_pc = "scan"
  /\ seg_i < Len(seg_lines)
  /\ \E o \in {scan_row(seg_lines, seg_prompt_row, seg_i)} :
       /\ seg_pc' = IF o.kind = K_none THEN "scan" ELSE "absorb"
       /\ seg_kind' = o.kind
       /\ seg_msg_lines' = IF o.kind = K_none THEN <<>> ELSE <<o.first>>
       /\ seg_last' = IF o.kind = K_none THEN "skipped" ELSE "opened"
       /\ seg_i' = IF o.kind = K_none THEN seg_i ELSE seg_i + 1
  /\ seg_pending_blank' = FALSE
  /\ UNCHANGED <<gate_vars, delta_vars, pipe_vars, fn_vars, seg_lines, seg_prompt_row, seg_out>>

\* one turn of the outer loop up to the inner loop: the row is skipped, or
\* it opens a block and its first line is pushed; i += 1
SegScanRow ==
  /\ seg_pc = "scan"
  /\ seg_i < Len(seg_lines)
  /\ \E o \in {scan_row(seg_lines, seg_prompt_row, seg_i)} :
       /\ seg_pc' = IF o.kind = K_none THEN "scan" ELSE "absorb"
       /\ seg_kind' = o.kind
       /\ seg_msg_lines' = IF o.kind = K_none THEN <<>> ELSE <<o.first>>
       /\ seg_last' = IF o.kind = K_none THEN "skipped" ELSE "opened"
  /\ seg_i' = seg_i + 1
  /\ seg_pending_blank' = FALSE
  /\ UNCHANGED <<gate_vars, delta_vars, pipe_vars, fn_vars, seg_lines, seg_prompt_row, seg_out>>

\* the inner loop stops at this row: it is not blank and starts a new block
\* or is noise
SegBreaks ==
  /\ trim(SegRaw) # <<>>
  /\ is_block_break(seg_kind, SegRaw) \/ is_ui_noise_line(SegRaw)

\* one turn of the inner loop that does not break: a blank row sets
\* pending_blank, another row is pushed after the pending blank line; i += 1
SegAbsorbRow ==
  /\ seg_pc = "absorb"
  /\ seg_i < Len(seg_lines)
  /\ ~SegBreaks
  /\ IF trim(SegRaw) = <<>>
     THEN /\ seg_pending_blank' = TRUE
          /\ seg_last' = "blank"
          /\ UNCHANGED seg_msg_lines
     ELSE /\ seg_pending_blank' = FALSE
          /\ seg_last' = "pushed"
          /\ seg_msg_lines' = absorb_push(seg_msg_lines, seg_pending_blank,
                                          continuation_row(seg_kind, SegRaw))
  /\ seg_i' = seg_i + 1
  /\ UNCHANGED <<gate_vars, delta_vars, pipe_vars, fn_vars, seg_pc, seg_lines, seg_prompt_row,
                 seg_out, seg_kind>>

\* the inner loop is left (break, or i = lines.len()): the blank lines at
\* the end of msg_lines are popped and the joined block is pushed on out
SegCloseBlock ==
  /\ seg_pc = "absorb"
  /\ IF seg_i >= Len(seg_lines) THEN TRUE ELSE SegBreaks
  /\ seg_out' = Append(seg_out, join(pop_blank_tail(seg_msg_lines), <<NL>>))
  /\ seg_pc' = "scan"
  /\ seg_msg_lines' = <<>>
  /\ seg_pending_blank' = FALSE
  /\ seg_last' = "closed"
  /\ UNCHANGED <<gate_vars, delta_vars, pipe_vars, fn_vars, seg_lines, seg_prompt_row, seg_i,
                 seg_kind>>

\* the outer loop is left and out is returned
SegReturn ==
  /\ seg_pc = "scan"
  /\ seg_i >= Len(seg_lines)
  /\ seg_pc' = "returned"
  /\ UNCHANGED <<gate_vars, delta_vars, pipe_vars, fn_vars, seg_lines, seg_prompt_row, seg_i,
                 seg_out, seg_kind, seg_msg_lines, seg_pending_blank, seg_last>>

SegNext == SegEnter \/ SegScanRow \/ SegAbsorbRow \/ SegCloseBlock \/ SegReturn

SpecSeg == SegInit /\ [][SegNext]_vars

\* the loops taken turn by turn return what the function returns
SegReturnsCandidates ==
  seg_pc = "returned" => seg_out = extract_transcript_candidates(snapshot)

(***************************************************************************)
(* Properties of the Frame Gate (SpecGate)                                 *)
(***************************************************************************)
\* the gate is open and the last Snapshot is not a busy frame
GateLetThrough == calls >= 1 /\ prompts_fed > 0 /\ ~BusyOf[last_screen]

\* C1: over a session no two emitted blocks, of one call or of different
\* calls, have the same Dedup Key: the blocks emitted so far are as many as
\* their distinct Dedup Keys, and the blocks of the last call have pairwise
\* different Dedup Keys.
C1_KeyEmittedAtMostOnce ==
  /\ n_emitted = Cardinality(emitted_keys)
  /\ \A i \in 1..Len(ret), j \in 1..Len(ret) :
       i # j => DedupKeyOf[ret[i]] # DedupKeyOf[ret[j]]

\* a call that emitted a block and held another candidate back as seen
C1_Witness ==
  /\ calls >= 2 /\ GateLetThrough
  /\ Len(ret) >= 1
  /\ Len(ret) < Len(CandidatesOf[last_screen])

\* C2: while no Snapshot with a prompt-marker row has been fed, every call
\* returns no block; so the first call that can return a block is the one
\* fed the first Snapshot with a prompt-marker row.
C2_Gating == prompts_fed = 0 => (ret = <<>> /\ n_emitted = 0)

\* after a Snapshot without a prompt row, the first Snapshot with one is fed
\* and its call returns the first blocks of the session
C2_Witness ==
  /\ calls >= 2 /\ prompts_fed = 1 /\ HasPromptRow[last_screen]
  /\ ret # <<>> /\ n_emitted = Len(ret)

C5_FirstEmitted(s) == DedupKeysOf[s] \subseteq emitted_keys

\* C5, as stated: when the text of a Snapshot, its chat text with it, differs
\* from that of the Snapshot before it only in the lengths of whitespace
\* runs, and the blocks
\* of the earlier one have been emitted, the candidate blocks have the same
\* Dedup Keys and the call returns nothing.
C5_AsStated ==
  [][(calls' = calls + 1 /\ calls >= 1
      /\ ChatAlike(last_screen, last_screen') /\ C5_FirstEmitted(last_screen)) =>
       /\ KeysOf[last_screen'] = KeysOf[last_screen]
       /\ ret' = <<>>]_vars

\* C5, amended: when the candidate blocks of a Snapshot differ from those of
\* the Snapshot before it, one by one, only in the lengths of whitespace
\* runs, and the blocks of the earlier one have been emitted, the candidate
\* blocks have the same Dedup Keys and the call returns nothing.
C5_BlockwiseDedup ==
  [][(calls' = calls + 1 /\ calls >= 1
      /\ BlocksAlike(last_screen, last_screen') /\ C5_FirstEmitted(last_screen)) =>
       /\ KeysOf[last_screen'] = KeysOf[last_screen]
       /\ ret' = <<>>]_vars

\* a Snapshot that shows the blocks of the one before it with other
\* whitespace runs is let through and returns nothing, its keys emitted
C5_Witness ==
  /\ alike /\ GateLetThrough
  /\ CandidatesOf[last_screen] # <<>>
  /\ \E k \in 1..Len(CandidatesOf[last_screen]) :
       CandidatesOf[last_screen][k] # KeyOf[CandidatesOf[last_screen][k]]
  /\ C5_FirstEmitted(last_screen)
  /\ ret = <<>>

(***************************************************************************)
(* Properties of the pipeline (SpecPipe)                                   *)
(***************************************************************************)
StdoutTexts == [k \in 1..Len(stdout) |-> stdout[k].text]
LogTexts == [k \in 1..Len(log) |-> log[k].text]
PendingTexts == [k \in 1..Len(pending) |-> with_newline(pending[k])]

\* C6: the blocks one call returns are a subsequence of the candidates of
\* its Snapshot; the blocks reach the channel and stdout in the order the
\* calls returned them, frame after frame: what was written, what the
\* channel holds and what the thread has still to send are, in this order,
\* the blocks returned so far, and what was written is a prefix of them even
\* after the output task ended.
C6_Ordering ==
  /\ IsSubseq(ret, CandidatesOf[last_screen])
  /\ \A i \in 1..Len(log), j \in 1..Len(log) : i < j => log[i].frame <= log[j].frame
  /\ IsPrefix(StdoutTexts, LogTexts)
  /\ ~output_done => StdoutTexts \o channel \o PendingTexts = LogTexts

\* two blocks of one frame and a block of a later frame were written
C6_Witness ==
  /\ Len(stdout) >= 3
  /\ log[1].frame = log[2].frame
  /\ log[2].frame < log[3].frame

(***************************************************************************)
(* Properties of the Delta Emitter (SpecDelta)                             *)
(***************************************************************************)
Last(q) == q[Len(q)]
Kinds == [k \in 1..Len(updates) |-> updates[k].kind]
Deltas == [k \in 1..Len(updates) |-> updates[k].delta]

\* each text extends the one before it; the same with a non-empty first
\* text and non-empty suffixes
Chain == \A i \in 1..(Len(texts) - 1) : IsPrefix(texts[i], texts[i + 1])
StrictChain ==
  /\ Chain
  /\ texts # <<>> => texts[1] # <<>>
  /\ \A i \in 1..(Len(texts) - 1) : texts[i] # texts[i + 1]

InitialThenAppends ==
  \A k \in 1..Len(updates) : Kinds[k] = IF k = 1 THEN Initial ELSE AppendKind

\* C7, as stated: when each text extends the one before it, the first call
\* returns Initial and every later call Append, and the deltas concatenated
\* are the last text.
C7_AsStated ==
  (Chain /\ texts # <<>>) => (InitialThenAppends /\ Concat(Deltas) = Last(texts))

\* C7, amended: when each text extends the one before it, the deltas
\* concatenated are the last text; when moreover the first text and every
\* suffix are non-empty, the first call returns Initial and every later
\* call Append.
C7_AppendMonotonicity ==
  /\ (Chain /\ texts # <<>>) => Concat(Deltas) = Last(texts)
  /\ StrictChain => InitialThenAppends

\* three texts, each a proper extension of the one before, the first of one
\* two-byte character
C7_Witness ==
  /\ Len(texts) = 3 /\ StrictChain
  /\ texts[1] = <<EACUTE>>
  /\ Kinds = <<Initial, AppendKind, AppendKind>>

\* C8: a call whose text does not extend the text of the call before it
\* returns Rewrite with an empty delta and adds 1 to the rewrite counter; a
\* call that returns Initial, Append or NoChange leaves the counter alone.
C8_RewriteDetection ==
  [][Len(texts') = Len(texts) + 1 =>
       /\ (texts # <<>> /\ ~IsPrefix(Last(texts), Last(texts'))) =>
            /\ Last(updates') = [kind |-> Rewrite, delta |-> <<>>]
            /\ rewrite_events' = rewrite_events + 1
       /\ Last(updates').kind \in {Initial, AppendKind, NoChange} =>
            rewrite_events' = rewrite_events]_vars

\* a text that does not extend the one before it was fed and counted
C8_Witness ==
  /\ Len(texts) >= 2
  /\ ~IsPrefix(texts[Len(texts) - 1], Last(texts))
  /\ Last(updates).kind = Rewrite
  /\ rewrite_events >= 1

\* C9: a call whose text equals the stored previous text, the empty text of
\* a first call included, returns NoChange with an empty delta, sets the
\* last-delta length to 0 and leaves the stored text, the rewrite counter
\* and the cumulative character counter as they were.
C9_NoChange ==
  [][(Len(texts') = Len(texts) + 1 /\ Last(texts') = prev) =>
       /\ Last(updates') = [kind |-> NoChange, delta |-> <<>>]
       /\ last_delta_chars' = 0
       /\ prev' = prev
       /\ rewrite_events' = rewrite_events
       /\ total_emitted_chars' = total_emitted_chars]_vars

\* the text of an Append is fed again: NoChange, and the last-delta length
\* the Append left is back at 0
C9_Witness ==
  /\ Len(texts) = 3
  /\ texts[3] = texts[2]
  /\ Kinds[2] = AppendKind /\ Kinds[3] = NoChange
  /\ last_delta_chars = 0 /\ total_emitted_chars > 0

\* C10, as stated: Initial is returned at most once in a session, for the
\* first text stored and with that text as delta; no call after it returns
\* Initial, whatever texts follow.
C10_InitialOnce ==
  /\ Cardinality({k \in 1..Len(updates) : Kinds[k] = Initial}) <= 1
  /\ \A k \in 1..Len(updates) :
       Kinds[k] = Initial =>
         /\ updates[k].delta = texts[k]
         /\ \A i \in 1..(k - 1) : texts[i] = <<>>


(***************************************************************************)
(* Properties of the Mirror Projector and the Screen Classifier            *)
(* (SpecClassify)                                                          *)
(***************************************************************************)
\* the rows of the Snapshot given, 1-based
SnapshotRows == lines(snapshot)

\* C11 - Mirror fixed height: whatever the Snapshot (empty, shorter than R,
\* longer than R) and the row count R >= 0 given, mirror_assistant_screen
\* returns exactly R rows.
C11_MirrorFixedHeight ==
  is_some(mirror_ret) => Len(unwrap(mirror_ret)) = target_rows

\* the mirror has returned for a Snapshot with more rows than the R >= 1 asked
C11_Witness ==
  /\ is_some(mirror_ret)
  /\ target_rows >= 1
  /\ Len(SnapshotRows) > target_rows

\* the row the Screen Classifier reports for the Snapshot given: the
\* highest-indexed prompt-marker row of the whole Snapshot
SnapshotPromptRow == scan_prompt_row(SnapshotRows)

\* output row k (1-based) as the Mirror Projector is described: blank when
\* the Snapshot has no such row, when the row is noise and when it lies at
\* or below the Snapshot's prompt row; the row right-trimmed otherwise
MirrorRowAsDescribed(k) ==
  IF \/ k > Len(SnapshotRows)
     \/ is_ui_noise_line(SnapshotRows[k])
     \/ (is_some(SnapshotPromptRow) /\ (k - 1) >= unwrap(SnapshotPromptRow))
  THEN <<>>
  ELSE trim_end(SnapshotRows[k])

\* C12 - Mirror content: for every Snapshot and R, output row i < R of
\* mirror_assistant_screen is blank exactly when Snapshot row i is missing,
\* is a noise row, or lies at or below the prompt row of the whole Snapshot,
\* and is Snapshot row i right-trimmed otherwise, also when R is smaller
\* than the number of rows of the Snapshot.
C12_MirrorContent ==
  is_some(mirror_ret) =>
    \A k \in 1..Len(unwrap(mirror_ret)) : unwrap(mirror_ret)[k] = MirrorRowAsDescribed(k)

IsBlank(row) == trim(row) = <<>>
NotNoise(row) == ~is_ui_noise_line(row)

\* the rows strictly above 0-based row `upto` (all rows when there is none),
\* in order, noise rows removed, each right-trimmed
RowsAbove(upto) ==
  LET above == SubSeq(SnapshotRows, 1, unwrap_or(upto, Len(SnapshotRows)))
      kept == SelectSeq(above, NotNoise)
  IN [k \in 1..Len(kept) |-> trim_end(kept[k])]

\* `short` is `long` with its trailing blank rows dropped
TrailingBlanksDropped(short, long) ==
  /\ IsPrefix(short, long)
  /\ short = <<>> \/ ~IsBlank(Last(short))
  /\ \A k \in (Len(short) + 1)..Len(long) : IsBlank(long[k])

\* C13 - Screen Classifier: extract_chat_area reports as prompt_row the
\* highest-indexed prompt-marker row of the Snapshot (none when no row is a
\* prompt marker, the last one when several are), and its lines are the
\* rows strictly above prompt_row (all rows when there is none), in order,
\* noise rows removed, each right-trimmed, trailing blank rows dropped.
C13_ScreenClassifier ==
  is_some(area_ret) =>
    LET area == unwrap(area_ret)
        markers == {k \in 1..Len(SnapshotRows) : is_prompt_marker_line(SnapshotRows[k])}
    IN /\ is_some(area.prompt_row) <=> markers # {}
       /\ is_some(area.prompt_row) =>
             /\ (unwrap(area.prompt_row) + 1) \in markers
             /\ \A k \in markers : k <= unwrap(area.prompt_row) + 1
       /\ TrailingBlanksDropped(area.lines, RowsAbove(area.prompt_row))

\* extract_chat_area has returned a non-empty chat area for a Snapshot with
\* two prompt-marker rows or more
C13_Witness ==
  /\ is_some(area_ret)
  /\ Cardinality({k \in 1..Len(SnapshotRows) : is_prompt_marker_line(SnapshotRows[k])}) >= 2
  /\ unwrap(area_ret).lines # <<>>

(***************************************************************************)
(* Properties of the Block Segmenter (SpecSeg)                             *)
(***************************************************************************)
\* the last turn of a loop read a row and went past it, and the row it read
SegReadRow == seg_last \in {"skipped", "opened", "pushed", "blank"}
SegRowRead == trim_end(seg_lines[seg_i])

\* the prompt-marker rows of the Snapshot (1-based) and the live prompt row
\* among them, the last one
MarkerRows == {k \in 1..Len(seg_lines) : is_prompt_marker_line(seg_lines[k])}
IsLivePromptRow(k) == k \in MarkerRows /\ \A j \in MarkerRows : j <= k
IsEarlierPromptRow(k) == k \in MarkerRows /\ \E j \in MarkerRows : j > k

\* what a prompt-marker row holds after its glyph and the space
PromptContent(row) == trim_end(SubSeq(row, 3, Len(row)))

\* the live prompt row neither opens nor extends a block
LivePromptSkipped ==
  seg_last \in {"opened", "pushed", "blank"} => ~IsLivePromptRow(seg_i)

\* an earlier prompt-marker row with content (and no busy phrase in it)
\* opens a user block with that content
EarlierPromptOpensUser ==
  (/\ SegReadRow
   /\ IsEarlierPromptRow(seg_i)
   /\ ~IsBlank(PromptContent(SegRowRead))
   /\ ~is_ui_noise_line(SegRowRead))
  => /\ seg_last = "opened"
     /\ seg_kind = K_user
     /\ seg_msg_lines = <<L_user \o PromptContent(SegRowRead)>>

\* no block returned shows the content of the live prompt row
LivePromptContentAbsent ==
  seg_pc = "returned" =>
    \A k \in MarkerRows :
      IsLivePromptRow(k) /\ ~IsBlank(PromptContent(seg_lines[k])) =>
        \A n \in 1..Len(seg_out) : ~contains(seg_out[n], trim(PromptContent(seg_lines[k])))

\* C14 as stated - the live prompt row (the last prompt-marker row) never
\* opens and never extends a block, no block returned contains the content
\* of the live prompt row, and every earlier prompt-marker row with
\* non-empty content opens a user block.
C14_AsStated == LivePromptSkipped /\ LivePromptContentAbsent /\ EarlierPromptOpensUser

\* C14 - the live prompt row (the last prompt-marker row) neither opens nor
\* extends a block: the outer loop skips it and every inner loop stops in
\* front of it; every earlier prompt-marker row (either glyph) with
\* non-empty content that is not a noise row opens a user block. (A block
\* may still show the characters of the live prompt row when another row
\* holds the same content.)
C14_LivePromptNeverInBlock == LivePromptSkipped /\ EarlierPromptOpensUser

\* the outer loop has just skipped the live prompt row, which has content,
\* after an earlier prompt-marker row opened a user block
C14_Witness ==
  /\ seg_last = "skipped"
  /\ IsLivePromptRow(seg_i)
  /\ ~IsBlank(PromptContent(SegRowRead))
  /\ \E n \in 1..Len(seg_out) : starts_with(seg_out[n], L_user)

\* the lines of msg_lines neither start nor end with a blank line and hold
\* no two blank lines in a row
NoStrayBlankLine(msg) ==
  /\ msg # <<>> => ~IsBlank(msg[1]) /\ ~IsBlank(Last(msg))
  /\ \A k \in 1..(Len(msg) - 1) : ~(IsBlank(msg[k]) /\ IsBlank(msg[k + 1]))

\* the same of a block text: "\n" neither first nor last nor three in a row
NoStrayBlankLineInText(block) ==
  /\ ~starts_with(block, <<NL>>)
  /\ ~ends_with(block, <<NL>>)
  /\ ~contains(block, <<NL, NL, NL>>)

\* C15 - blank rows inside a block of any role: a run of one or more blank
\* rows becomes exactly one blank line of the block when a further row of
\* the same block follows (and none when the further row follows at once),
\* and nothing otherwise; no block, open or returned, starts or ends with a
\* blank line or holds two blank lines in a row.
C15_BlankRows ==
  /\ seg_last = "pushed" =>
       LET n == Len(seg_msg_lines)
       IN IF IsBlank(seg_lines[seg_i - 1])
          THEN n >= 3 /\ IsBlank(seg_msg_lines[n - 1]) /\ ~IsBlank(seg_msg_lines[n - 2])
          ELSE n >= 2 /\ ~IsBlank(seg_msg_lines[n - 1])
  /\ seg_last = "blank" => seg_msg_lines # <<>> /\ ~IsBlank(Last(seg_msg_lines))
  /\ NoStrayBlankLine(seg_msg_lines)
  /\ \A n \in 1..Len(seg_out) : NoStrayBlankLineInText(seg_out[n])

\* a row has just been pushed on an open block after a run of two blank rows
C15_Witness ==
  /\ seg_last = "pushed"
  /\ seg_i >= 4
  /\ IsBlank(seg_lines[seg_i - 1])
  /\ IsBlank(seg_lines[seg_i - 2])

\* a row without its first two columns when both are spaces, the row otherwise
HangingIndentStripped(row) ==
  IF Len(row) >= 2 /\ row[1] = " " /\ row[2] = " " THEN SubSeq(row, 3, Len(row)) ELSE row

\* C16 as stated - a continuation row has its 2-column hanging indent
\* stripped if and only if the open block is a user or an assistant block;
\* the continuation rows of every system block, warning notice or Tip, are
\* kept with their indentation as it is.
C16_AsStated ==
  seg_last = "pushed" =>
    Last(seg_msg_lines) = IF seg_kind \in {K_user, K_assistant}
                          THEN HangingIndentStripped(SegRowRead)
                          ELSE SegRowRead

\* C16 - a continuation row has its 2-column hanging indent stripped (once,
\* and only two columns) in a user block, an assistant block and a
\* warning-notice block; in a Tip block it is kept right-trimmed with its
\* indentation as it is.
C16_ContinuationIndent ==
  seg_last = "pushed" =>
    Last(seg_msg_lines) = IF seg_kind = K_tip
                          THEN SegRowRead
                          ELSE HangingIndentStripped(SegRowRead)

\* an indented row has just been pushed on an open warning-notice block
C16_Witness ==
  /\ seg_last = "pushed"
  /\ seg_kind = K_notice
  /\ starts_with(SegRowRead, <<" ", " ">>)

\* the rows that start a block or are noise
IsTipRow(row) == starts_with(trim_start(row), L_Tip)
IsNoticeRow(row) == is_system_notice_line(trim_start(row))
IsBulletRow(row) == starts_with(row, <<BULLET, " ">>)
IsBlockStartRow(row) ==
  IsNoticeRow(row) \/ IsTipRow(row) \/ is_prompt_marker_line(row) \/ IsBulletRow(row)

\* the row in front of which the inner loop was left, when there is one
SegRowAhead == trim_end(seg_lines[seg_i + 1])

\* C17 as stated - an open block of any role absorbs rows until the first
\* block-start row (system-notice or "Tip:" opener, prompt-marker row,
\* bullet row), the first noise row or the end of the screen; a row that
\* would open a block of its own with no block open is never absorbed as a
\* continuation, whatever the role of the open block.
C17_AsStated ==
  /\ seg_last = "pushed" =>
       /\ ~IsBlockStartRow(SegRowRead)
       /\ ~is_ui_noise_line(SegRowRead)
       /\ scan_row(seg_lines, seg_prompt_row, seg_i - 1).kind = K_none
  /\ seg_last = "closed" =>
       \/ seg_i >= Len(seg_lines)
       \/ IsBlockStartRow(SegRowAhead)
       \/ is_ui_noise_line(SegRowAhead)

\* the rows that stop the inner loop of a block of role `kind`: a "Tip:" row
\* stops a system block only
StopsBlock(kind, row) ==
  \/ IsNoticeRow(row)
  \/ is_prompt_marker_line(row)
  \/ IsBulletRow(row)
  \/ is_ui_noise_line(row)
  \/ (kind \in {K_notice, K_tip} /\ IsTipRow(row))

\* C17 - an open block absorbs rows until the first system-notice opener,
\* prompt-marker row, bullet row or noise row, or the end of the screen; a
\* "Tip:" row ends a system block (warning notice or Tip) and is absorbed
\* as a continuation by a user block and by an assistant block.
C17_BlockTermination ==
  /\ seg_last = "pushed" => ~StopsBlock(seg_kind, SegRowRead)
  /\ seg_last = "closed" =>
       \/ seg_i >= Len(seg_lines)
       \/ StopsBlock(seg_kind, SegRowAhead)

\* a "Tip:" row has just been pushed on an open user or assistant block
C17_Witness ==
  /\ seg_last = "pushed"
  /\ seg_kind \in {K_user, K_assistant}
  /\ IsTipRow(SegRowRead)

\* the turns the loops can still take: two for every row not yet consumed,
\* one more inside an inner loop
SegTurnsLeft == 2 * (Len(seg_lines) - seg_i) + (IF seg_pc = "absorb" THEN 1 ELSE 0)

\* C18 - the Block Segmenter never fails and never hangs: for every
\* Snapshot, the empty one and the ones without a marker included, every
\* turn of the outer loop consumes a row, every turn of an inner loop
\* consumes a row or leaves the loop, no turn reads a row past the end, so
\* the turns left decrease down to the return of the block list, which may
\* be empty.
C18_SegmenterTerminates ==
  /\ [][/\ seg_pc = "entry" => seg_pc' = "scan"
        /\ seg_pc = "scan" =>
             \/ seg_i >= Len(seg_lines) /\ seg_pc' = "returned"
             \/ seg_i' = seg_i + 1 /\ seg_pc' \in {"scan", "absorb"} /\ seg_out' = seg_out
        /\ seg_pc = "absorb" =>
             \/ seg_i' = seg_i + 1 /\ seg_pc' = "absorb"
             \/ seg_i' = seg_i /\ seg_pc' = "scan" /\ Len(seg_out') = Len(seg_out) + 1
        /\ seg_pc \in {"scan", "absorb"} /\ seg_pc' # "returned" => SegTurnsLeft' < SegTurnsLeft
        /\ seg_pc # "returned"]_vars
  /\ [](seg_i <= Len(seg_lines) /\ SegTurnsLeft >= 0)

\* the function has returned an empty list for a Snapshot of three rows or
\* more, none of which opened a block
C18_Witness ==
  /\ seg_pc = "returned"
  /\ Len(seg_lines) >= 3
  /\ seg_out = <<>>

(***************************************************************************)
(* Properties of the state of the Delta Emitter (SpecDelta)                *)
(***************************************************************************)
\* C19 as stated - on_chat_text replaces the stored previous text only when
\* it returns Initial or Append; a call that returns Rewrite or NoChange
\* leaves the stored previous text as it was before the call.
C19_AsStated ==
  [][texts' # texts =>
       /\ Last(updates').kind \in {Rewrite, NoChange} => prev' = prev
       /\ prev' # prev => Last(updates').kind \in {Initial, AppendKind}]_vars

\* C19 - on_chat_text replaces the stored previous text by the text given
\* when it returns Initial, Append or Rewrite, and leaves it when it returns
\* NoChange (the text given is the stored one): after every call the stored
\* text is the text of that call.
C19_StoredTextReplaced ==
  [][texts' # texts =>
       /\ prev' = Last(texts')
       /\ Last(updates').kind = NoChange <=> prev' = prev]_vars

\* the last call returned Rewrite and the stored text is the text it was given
C19_Witness ==
  /\ updates # <<>>
  /\ Last(updates).kind = Rewrite
  /\ prev = Last(texts)

(***************************************************************************)
(* Properties of the state of the Frame Gate (SpecGate)                    *)
(***************************************************************************)
\* C20 - after any sequence of on_screen calls the key set is the set of
\* the Dedup Keys of the blocks emitted so far, so it has as many keys as
\* blocks were emitted, however many frames were fed; no call removes a
\* key; a call suppressed by the gate or by the busy phrase adds no key;
\* the prompt-ever-seen flag never goes back from true to false.
C20_FrameGateState ==
  /\ [](printed_keys = emitted_keys /\ Cardinality(printed_keys) = n_emitted)
  /\ [][/\ printed_keys \subseteq printed_keys'
        /\ (calls' # calls /\ (~saw_prompt' \/ BusyOf[last_screen'])) =>
             (printed_keys' = printed_keys /\ ret' = <<>>)
        /\ saw_prompt => saw_prompt']_vars

\* a session that has emitted a block and recorded its key is fed a busy
\* Snapshot with blocks of its own: frames outnumber keys
C20_Witness ==
  /\ calls >= 2
  /\ saw_prompt
  /\ printed_keys # {}
  /\ BusyOf[last_screen]
  /\ CandidatesOf[last_screen] # <<>>
  /\ Cardinality(printed_keys) < calls

(***************************************************************************)
(* Properties of the read loop of the transcript thread (SpecPipe)         *)
(***************************************************************************)
\* the read loop made a turn
ReadTurn == reads' = reads + 1

\* C21 - a turn of the read loop whose screen is the screen processed just
\* before it (or the empty screen the loop starts from) calls on_screen not
\* at all and produces nothing: the Frame Gate, the blocks waiting to be
\* sent, the channel and stdout stay as they are; on_screen is called, once,
\* in the turns whose screen differs from the last processed one, and only
\* in them.
C21_IdenticalFramesShortCircuit ==
  /\ [][ReadTurn /\ vt_screen' = last_screen =>
          /\ UNCHANGED <<gate_vars, pending, channel, stdout, log>>
          /\ pending = <<>>]_vars
  /\ [][ReadTurn /\ vt_screen' # last_screen =>
          /\ calls' = calls + 1
          /\ last_screen' = vt_screen'
          /\ pending' = ret']_vars
  /\ [][calls' # calls => ReadTurn /\ vt_screen' # last_screen]_vars
  /\ [](calls <= reads /\ ~replayed)

\* after a screen with blocks was processed and its blocks were sent, the
\* loop made a turn with the same screen: one call for two turns
C21_Witness ==
  /\ reads = 2
  /\ calls = 1
  /\ vt_screen = last_screen
  /\ n_emitted > 0
  /\ pending = <<>>

(***************************************************************************)
(* Properties of the system-notice opener (SpecSeg)                        *)
(***************************************************************************)
\* the three marks of a notice the specification names, on the trimmed row:
\* it starts with the warning glyph; "Heads up," starts within its first
\* five bytes (byte offset at most 4); it mentions "weekly limit", "/status"
\* or a percent sign
GlyphFirst(row) == trim(row) # <<>> /\ trim(row)[1] = WARN
OccursAt(t, word, k) == k + Len(word) - 1 <= Len(t) /\ SubSeq(t, k, k + Len(word) - 1) = word
HeadsUpEarly(row) ==
  \E k \in 1..Len(trim(row)) :
    /\ OccursAt(trim(row), L_Heads_up, k)
    /\ byte_len(SubSeq(trim(row), 1, k - 1)) <= 4
MentionsKeyword(row) ==
  \E k \in 1..Len(trim(row)) :
    \/ OccursAt(trim(row), L_weekly_limit, k)
    \/ OccursAt(trim(row), L_status, k)
    \/ trim(row)[k] = "%"

\* the outer loop has just read a row that is neither noise nor a "Tip:"
\* row, nor a prompt-marker or bullet row
SegReadPlainRow ==
  /\ seg_last \in {"skipped", "opened"}
  /\ trim(SegRowRead) # <<>>
  /\ ~is_ui_noise_line(SegRowRead)
  /\ ~IsTipRow(SegRowRead)
  /\ ~is_prompt_marker_line(trim_start(SegRowRead))
  /\ ~IsBulletRow(trim_start(SegRowRead))
SegOpenedNotice == seg_last = "opened" /\ seg_kind = K_notice

RolePrefixes == {L_user, L_assistant, L_system}
\* the role prefix of a block opened by a row of the given kind
RolePrefixOf(kind) ==
  IF kind = K_user THEN L_user
  ELSE IF kind = K_assistant THEN L_assistant
  ELSE L_system
\* the block starts with exactly one role prefix and is not blank after it
WellFormedBlock(b) ==
  /\ Cardinality({p \in RolePrefixes : starts_with(b, p)}) = 1
  /\ \A p \in RolePrefixes :
       starts_with(b, p) => trim(SubSeq(b, Len(p) + 1, Len(b))) # <<>>
  /\ trim(b) # <<>>
\* the role the opener row stands for: a prompt-marker row for the user, a
\* bullet row for the assistant, a notice or "Tip:" row for the system
OpenerPrefix(row) ==
  IF IsNoticeRow(row) \/ IsTipRow(row) THEN L_system
  ELSE IF is_prompt_marker_line(row) THEN L_user
  ELSE L_assistant
\* a prompt-marker row with nothing but whitespace after its marker
IsEmptyPromptRow(row) ==
  /\ is_prompt_marker_line(row)
  /\ \/ Len(row) = 1
     \/ trim(SubSeq(row, 3, Len(row))) = <<>>

\* C23 - every block the segmenter has returned or pushed starts with
\* exactly one of the role prefixes "user: ", "assistant: ", "system: " and
\* has non-blank content after it; the prefix is the one of the row that
\* opened the block and stays until the block is closed; a prompt-marker
\* row whose content is empty (a bare prompt glyph) is skipped and opens no
\* block.
C23_BlocksWellFormed ==
  /\ \A k \in 1..Len(seg_out) : WellFormedBlock(seg_out[k])
  /\ seg_last = "opened" =>
       /\ seg_msg_lines # <<>>
       /\ starts_with(seg_msg_lines[1], OpenerPrefix(SegRowRead))
       /\ OpenerPrefix(SegRowRead) = RolePrefixOf(seg_kind)
       /\ WellFormedBlock(seg_msg_lines[1])
  /\ seg_last \in {"pushed", "blank"} =>
       starts_with(seg_msg_lines[1], RolePrefixOf(seg_kind))
  /\ seg_last = "closed" =>
       starts_with(seg_out[Len(seg_out)], RolePrefixOf(seg_kind))
  /\ (seg_last \in {"skipped", "opened"} /\ IsEmptyPromptRow(SegRowRead)) =>
       seg_last = "skipped"

\* a Snapshot with a bare prompt glyph above the live prompt row has been
\* segmented: the bare row opened nothing, and blocks of two roles came back
C23_Witness ==
  /\ seg_pc = "returned"
  /\ \E k \in 1..Len(seg_lines) : seg_lines[k] = R_prompt_bare /\ IsEarlierPromptRow(k)
  /\ \E i \in 1..Len(seg_out), j \in 1..Len(seg_out) :
       starts_with(seg_out[i], L_user) /\ starts_with(seg_out[j], L_system)

(***************************************************************************)
(* Properties of the rows below the live prompt row (SpecSeg)              *)
(***************************************************************************)
\* C24 - in a Snapshot with a prompt row, no row below the live prompt row
\* opens a block or is pushed on one, and the live prompt row does neither:
\* every row a block takes text from lies above the live prompt row.
C24_NothingBelowLivePrompt ==
  seg_last \in {"opened", "pushed"} =>
    \A k \in MarkerRows : IsLivePromptRow(k) => seg_i < k

(***************************************************************************)
(* No settled block is lost by the Frame Gate (SpecGate)                   *)
(***************************************************************************)
\* C25 - after an on_screen call that is not suppressed (a prompt row was
\* seen in this or an earlier Snapshot, and the Snapshot holds no busy
\* phrase) the Dedup Key of every candidate block of the Snapshot is in the
\* key set, and the block with that key was returned by this call or by an
\* earlier one.
C25_NoSettledBlockLost ==
  GateLetThrough =>
    /\ saw_prompt
    /\ \A k \in 1..Len(CandidatesOf[last_screen]) :
         /\ DedupKeyOf[CandidatesOf[last_screen][k]] \in printed_keys
         /\ DedupKeyOf[CandidatesOf[last_screen][k]] \in emitted_keys

\* the second call, on a Snapshot without a prompt row, returned a block,
\* and another block of the Snapshot was returned by the first call
C25_Witness ==
  /\ calls = 2 /\ GateLetThrough
  /\ ~HasPromptRow[last_screen]
  /\ ret # <<>>
  /\ \E key \in DedupKeysOf[last_screen] : \A k \in 1..Len(ret) : DedupKeyOf[ret[k]] # key

(***************************************************************************)
(* The consumer of the delta stream (SpecDelta)                            *)
(***************************************************************************)
\* the text a consumer holds after the first n updates: it starts with the
\* empty text, appends the delta of an Initial or Append, keeps its text on
\* NoChange and fetches the full chat text of the call on a Rewrite
RECURSIVE ConsumerText(_)
ConsumerText(n) ==
  IF n = 0 THEN <<>>
  ELSE IF updates[n].kind \in {Initial, AppendKind} THEN ConsumerText(n - 1) \o updates[n].delta
  ELSE IF updates[n].kind = NoChange THEN ConsumerText(n - 1)
  ELSE texts[n]

\* C26 - after every on_chat_text call the consumer holds exactly the chat
\* text passed to that call, for any sequence of inputs.
C26_ConsumerReconstructs ==
  /\ Len(updates) = Len(texts)
  /\ \A n \in 1..Len(texts) : ConsumerText(n) = texts[n]

\* the consumer followed an Initial, a Rewrite to another text and an
\* Append with a two-byte character before the suffix
C26_Witness ==
  /\ Len(texts) = 3
  /\ Kinds = <<Initial, Rewrite, AppendKind>>
  /\ texts[2][1] = EACUTE
  /\ ConsumerText(3) = texts[3]

(***************************************************************************)
(* Blocks at the end of run_jsonl (SpecPipe)                               *)
(***************************************************************************)
\* C27 - every block on_screen returned in the transcript thread is written
\* to stdout as one transcript message, whatever the interleaving of the
\* thread, the output task and select!: when run_jsonl returns, and the
\* process with it, without a write to stdout having failed, no block is
\* left unsent in the thread or queued on the channel; the messages written
\* carry the blocks returned, all of them, in order.
C27_NoBlockDropped ==
  (returned /\ ~output_done) =>
    /\ pending = <<>>
    /\ channel = <<>>
    /\ StdoutTexts = LogTexts
    /\ \A k \in 1..Len(stdout) : stdout[k] = transcript_msg(log[k].text)

=============================================================================
